---- MODULE Spec2Model ----
(***************************************************************************)
(* Model of disk/usage.py: the DiskUsage object.  Construction probes the  *)
(* partition (_get_partition_usage), walks the tree (_walk_filesystem),    *)
(* keeps the 20 largest files (_process_files), adds file sizes to their   *)
(* directory (_add_up_dir) and finally keeps the 10 largest directories    *)
(* (_sort_dirs).                                                           *)
(*                                                                         *)
(* The file system is the environment: the directory tree, the mount       *)
(* points and the statvfs result are fixed when the run starts; the number *)
(* of file names a listing returns and the result of each os.stat are      *)
(* chosen when the code asks for them.  A file record carries the          *)
(* directory part of its path as its name (the base name is abstracted).   *)
(* Sizes are float(st_size); float() is exact on integers below 2^53 and   *)
(* the sizes of the model are far below, so ToFloat keeps the number.      *)
(* `root is '/'` is modelled as string equality (CPython and PyPy share    *)
(* one object for equal one-character strings).  A dict is a sequence of   *)
(* items in insertion order.  Symbolic links to directories and            *)
(* directories that cannot be listed (both skipped inside os.walk) are     *)
(* not part of the modelled trees.  The progress dots (_show_activity,     *)
(* _remove_activity) touch only self._activity and stdout and are left     *)
(* out.  _sort_dirs is two steps, so that self.dirs is observable before   *)
(* it is cut to 10 entries.                                                *)
(*                                                                         *)
(* Spec scans a directory and its subdirectory and then lets a caller use  *)
(* the object; SpecNested scans a tree with mount points from / or /a;     *)
(* SpecFlat scans one directory of 20 files or more; SpecWide scans up to  *)
(* MaxWide + 1 directories; SpecProbe probes every partition.              *)
(***************************************************************************)
EXTENDS Integers, Sequences, FiniteSets, Bags, TLC

\* ------------------------------------------------------------------ bounds
MaxSize == 1        \* file sizes are 0..MaxSize
MaxFlatFiles == 22  \* files in the single directory of the flat scenario
MaxDirFiles == 1    \* files per directory of the nested scenario
MaxPairFiles == 5   \* files per directory of the two-directory scenario
MaxWide == 10       \* subdirectories of the wide scenario
MaxFail == 1        \* stat failures in one run
MaxLate == 1        \* method calls made on the object after construction
MaxBlocks == 3      \* f_blocks of the probed partition
MaxInodes == 2      \* f_files of the probed partition
MaxFrsize == 2      \* f_frsize of the probed partition

\* ------------------------------------------------------- program constants
FilesLimit == 21    \* len(self.files) >= 21
DirsKept == 10      \* self.dirs[0:10]
exclude_root_dirs == {"dev", "proc", "selinux"}

NoName == "<no name>"   \* a record without the name attribute

VARIABLES
    pc,               \* "probe", "walk", "sort_dirs", "truncate", "done", "error"
    target,           \* DiskUsage(target)
    subdirs,          \* file system: directory path -> names of its subdirectories
    mounts,           \* file system: the paths os.path.ismount answers True for
    statvfs,          \* file system: what os.statvfs(target) returns (ok = FALSE: OSError)
    max_list,         \* file system: most file names a listing returns
    min_list,         \* file system: fewest file names a listing returns
    stat_sizes,       \* file system: the st_size values os.stat can return
    max_fail,         \* file system: most os.stat calls that raise OSError
    partition,        \* self.partition
    dirs_holder,      \* self._dirs_holder, items in insertion order
    has_dirs_holder,  \* FALSE after `del self._dirs_holder`
    dir_count,        \* self.dir_count
    dirs,             \* self.dirs
    file_count,       \* self.file_count
    files,            \* self.files
    stack,            \* os.walk: directories still to be yielded
    root,             \* os.walk: the directory being processed
    todo,             \* file names of root not yet processed
    listed,           \* history: number of file names returned by all listings
    visited,          \* history: the directories os.walk yielded
    seen,             \* history: bag of the records handed to _process_files
    accumulated,      \* history: the items of _dirs_holder when _sort_dirs began
    late,             \* number of calls made after construction
    call,             \* the last call made after construction
    raised            \* whether that call raised

vars == <<pc, target, subdirs, mounts, statvfs, max_list, min_list, stat_sizes,
          max_fail, partition, dirs_holder, has_dirs_holder, dir_count, dirs,
          file_count, files, stack, root, todo, listed, visited, seen,
          accumulated, late, call, raised>>

fsvars == <<target, subdirs, mounts, statvfs, max_list, min_list, stat_sizes, max_fail>>

\* ----------------------------------------------------------------- helpers
Min(a, b) == IF a < b THEN a ELSE b
Max(a, b) == IF a > b THEN a ELSE b

\* float(file_stat.st_size)
ToFloat(n) == n

\* os.path.join(root, name)
Join(r, name) == IF r = "/" THEN r \o name ELSE r \o "/" \o name

\* sorted(..., key=size, reverse=True): a stable sort, largest first; equal
\* keys keep their original order.
InsertReverse(sorted, x) ==
    LET before == Cardinality({i \in 1..Len(sorted) : sorted[i].size >= x.size})
    IN  SubSeq(sorted, 1, before) \o <<x>> \o SubSeq(sorted, before + 1, Len(sorted))

RECURSIVE SortedReverse(_)
SortedReverse(s) ==
    IF s = <<>> THEN <<>>
    ELSE InsertReverse(SortedReverse(SubSeq(s, 1, Len(s) - 1)), s[Len(s)])

\* ------------------------------------------------------------ the methods
\* _sort_files_list
SortFilesUnsorted(fs) == fs
sort_files_list(fs) == SortedReverse(fs)

\* _process_files
ProcessFilesPopFirst(fs, file_data) ==
    LET sorted == sort_files_list(Append(fs, file_data))
    IN  IF Len(sorted) >= FilesLimit THEN Tail(sorted) ELSE sorted
process_files(fs, file_data) ==
    LET sorted == sort_files_list(Append(fs, file_data))
    IN  IF Len(sorted) >= FilesLimit THEN SubSeq(sorted, 1, Len(sorted) - 1) ELSE sorted

\* _add_up_dir
HolderHas(holder, r) == \E i \in 1..Len(holder) : holder[i].name = r
AddUpDirOverwrite(holder, r, file_data) ==
    IF HolderHas(holder, r)
    THEN [i \in 1..Len(holder) |->
            IF holder[i].name = r
            THEN [name |-> r, size |-> file_data.size]
            ELSE holder[i]]
    ELSE Append(holder, [name |-> r, size |-> file_data.size])
add_up_dir(holder, r, file_data) ==
    IF HolderHas(holder, r)
    THEN [i \in 1..Len(holder) |->
            IF holder[i].name = r
            THEN [name |-> r, size |-> holder[i].size + file_data.size]
            ELSE holder[i]]
    ELSE Append(holder, [name |-> r, size |-> file_data.size])

\* _filter_dirs
FilterDirsKeepMounts(r, ds) ==
    IF r = "/" THEN SelectSeq(ds, LAMBDA d : d \notin exclude_root_dirs) ELSE ds
filter_dirs(r, ds) ==
    LET unmounted == SelectSeq(ds, LAMBDA d : Join(r, d) \notin mounts)
    IN  IF r = "/"
        THEN SelectSeq(unmounted, LAMBDA d : d \notin exclude_root_dirs)
        ELSE unmounted

\* _get_file_data; stat is the result of os.stat(filename), dir the directory
\* part of filename
get_file_data(dir, stat) ==
    IF stat.ok
    THEN [name |-> dir, size |-> ToFloat(stat.st_size)]
    ELSE [name |-> NoName, size |-> 0]

\* self.file_count += 1
CountOnlyStatted(n, file_data) == IF file_data.name = NoName THEN n ELSE n + 1
count_file(n, file_data) == n + 1

\* the body of _get_partition_usage
PartitionUsageAvail(st) ==
    [free |-> st.f_bavail * st.f_frsize,
     total |-> st.f_blocks * st.f_frsize,
     used |-> (st.f_blocks - st.f_bavail) * st.f_frsize,
     inodes_free |-> st.f_favail,
     inodes_total |-> st.f_files,
     inodes_used |-> st.f_files - st.f_favail]
partition_usage(st) ==
    [free |-> st.f_bavail * st.f_frsize,
     total |-> st.f_blocks * st.f_frsize,
     used |-> (st.f_blocks - st.f_bfree) * st.f_frsize,
     inodes_free |-> st.f_favail,
     inodes_total |-> st.f_files,
     inodes_used |-> st.f_files - st.f_favail]

\* what os.stat can answer for the next file
Fails == CopiesIn([name |-> NoName, size |-> 0], seen)
StatResults ==
    {[ok |-> TRUE, st_size |-> s] : s \in stat_sizes}
    \cup (IF Fails < max_fail THEN {[ok |-> FALSE, st_size |-> 0]} ELSE {})

\* ------------------------------------------------------------ file systems
\* what os.statvfs can answer
StatvfsResults ==
    {[ok |-> TRUE, f_blocks |-> b, f_bfree |-> f, f_bavail |-> a, f_frsize |-> z,
      f_files |-> n, f_favail |-> v] :
        b \in 0..MaxBlocks, f \in 0..MaxBlocks, a \in 0..MaxBlocks,
        z \in 1..MaxFrsize, n \in 0..MaxInodes, v \in 0..MaxInodes}
StatvfsValid(st) == st.f_bavail <= st.f_bfree /\ st.f_bfree <= st.f_blocks
                    /\ st.f_favail <= st.f_files
StatvfsTypical == [ok |-> TRUE, f_blocks |-> 3, f_bfree |-> 2, f_bavail |-> 1,
                   f_frsize |-> 1, f_files |-> 2, f_favail |-> 1]
StatvfsError == [ok |-> FALSE, f_blocks |-> 0, f_bfree |-> 0, f_bavail |-> 0,
                 f_frsize |-> 1, f_files |-> 0, f_favail |-> 0]

NestedTree ==
    [p \in {"/", "/proc", "/a", "/a/proc", "/a/b"} |->
        CASE p = "/" -> <<"proc", "a">>
          [] p = "/a" -> <<"proc", "b">>
          [] OTHER -> <<>>]
FlatTree == [p \in {"/f"} |-> <<>>]
PairTree == [p \in {"/s", "/s/t"} |-> IF p = "/s" THEN <<"t">> ELSE <<>>]
WideName(i) == "d" \o ToString(i)
WideTree(n) ==
    [p \in {"/w"} \cup {Join("/w", WideName(i)) : i \in 1..n} |->
        IF p = "/w" THEN [i \in 1..n |-> WideName(i)] ELSE <<>>]

\* the state of a fresh object, before __init__ runs the probe
InitObject ==
    /\ pc = "probe"
    /\ partition = [free |-> 0, total |-> 0, used |-> 0,
                    inodes_free |-> 0, inodes_total |-> 0, inodes_used |-> 0]
    /\ dirs_holder = <<>>
    /\ has_dirs_holder = TRUE
    /\ dir_count = 0
    /\ dirs = <<>>
    /\ file_count = 0
    /\ files = <<>>
    /\ stack = <<>>
    /\ root = ""
    /\ todo = 0
    /\ listed = 0
    /\ visited = {}
    /\ seen = EmptyBag
    /\ accumulated = <<>>
    /\ late = 0
    /\ call = "none"
    /\ raised = FALSE

\* a nested tree with mount points, scanned from / or from /a
InitNested ==
    /\ InitObject
    /\ subdirs = NestedTree
    /\ target \in {"/", "/a"}
    /\ mounts \in {m \in SUBSET (DOMAIN NestedTree \ {"/"}) : Cardinality(m) <= 1}
    /\ statvfs \in {StatvfsTypical, StatvfsError}
    /\ max_list = MaxDirFiles
    /\ min_list = 0
    /\ stat_sizes = 0..MaxSize
    /\ max_fail = MaxFail

\* one directory holding many files
InitFlat ==
    /\ InitObject
    /\ subdirs = FlatTree
    /\ target = "/f"
    /\ mounts = {}
    /\ statvfs \in {StatvfsTypical, StatvfsError}
    /\ max_list = MaxFlatFiles
    /\ min_list = MaxFlatFiles - 2
    /\ stat_sizes = 0..MaxSize
    /\ max_fail = MaxFail

\* a directory and its subdirectory, a few files in each
Init ==
    /\ InitObject
    /\ subdirs = PairTree
    /\ target = "/s"
    /\ mounts = {}
    /\ statvfs \in {StatvfsTypical, StatvfsError}
    /\ max_list = MaxPairFiles
    /\ min_list = 0
    /\ stat_sizes = 0..MaxSize
    /\ max_fail = MaxFail

\* one directory with up to MaxWide subdirectories, one file in each directory
InitWide ==
    /\ InitObject
    /\ subdirs \in {WideTree(n) : n \in 0..MaxWide}
    /\ target = "/w"
    /\ mounts = {}
    /\ statvfs \in {StatvfsTypical, StatvfsError}
    /\ max_list = 1
    /\ min_list = 1
    /\ stat_sizes = {1, 2}
    /\ max_fail = 0

\* every partition
InitProbe ==
    /\ InitObject
    /\ subdirs = FlatTree
    /\ target = "/f"
    /\ mounts = {}
    /\ statvfs \in {st \in StatvfsResults : StatvfsValid(st)} \cup {StatvfsError}
    /\ max_list = 1
    /\ min_list = 0
    /\ stat_sizes = {1}
    /\ max_fail = 1

\* ---------------------------------------------------------------- actions
\* __init__: self._get_partition_usage(target); os.statvfs raises OSError for
\* a target that does not resolve, and the constructor fails
GetPartitionUsage ==
    /\ pc = "probe"
    /\ IF statvfs.ok
       THEN /\ partition' = partition_usage(statvfs)
            /\ pc' = "walk"
            /\ stack' = <<target>>
       ELSE /\ pc' = "error"
            /\ UNCHANGED <<partition, stack>>
    /\ UNCHANGED <<fsvars, dirs_holder, has_dirs_holder, dir_count, dirs,
                   file_count, files, root, todo, listed, visited, seen,
                   late, call, raised>>
    /\ UNCHANGED accumulated

\* for root, dirs, files in os.walk(target): dirs = self._filter_dirs(root, dirs)
\* os.walk descends, depth first, into the names left in dirs
WalkNext ==
    /\ pc = "walk"
    /\ todo = 0
    /\ stack # <<>>
    /\ LET r == Head(stack)
           kept == filter_dirs(r, subdirs[r])
       IN  /\ root' = r
           /\ stack' = [i \in 1..Len(kept) |-> Join(r, kept[i])] \o Tail(stack)
           /\ visited' = visited \cup {r}
    /\ \E n \in min_list..max_list :
           /\ todo' = n
           /\ listed' = listed + n
    /\ UNCHANGED <<pc, fsvars, partition, dirs_holder, has_dirs_holder, dir_count,
                   dirs, file_count, files, seen, late, call, raised>>
    /\ UNCHANGED accumulated

\* for name in files: the body of the loop
ProcessFile ==
    /\ pc = "walk"
    /\ todo > 0
    /\ \E stat \in StatResults :
           LET file_data == get_file_data(root, stat)
           IN  /\ file_count' = count_file(file_count, file_data)
               /\ files' = process_files(files, file_data)
               /\ dirs_holder' = add_up_dir(dirs_holder, root, file_data)
               /\ seen' = seen (+) SetToBag({file_data})
    /\ todo' = todo - 1
    /\ UNCHANGED <<pc, fsvars, partition, has_dirs_holder, dir_count, dirs,
                   stack, root, listed, visited, late, call, raised>>
    /\ UNCHANGED accumulated

\* the walk is over: self._remove_activity(), then self._sort_dirs() begins
WalkDone ==
    /\ pc = "walk"
    /\ todo = 0
    /\ stack = <<>>
    /\ pc' = "sort_dirs"
    /\ UNCHANGED <<fsvars, partition, dirs_holder, has_dirs_holder, dir_count,
                   dirs, file_count, files, stack, root, todo, listed, visited,
                   seen, late, call, raised>>
    /\ UNCHANGED accumulated

\* _sort_dirs, up to self.dir_count = len(self.dirs)
SortDirsKeepHolder ==
    /\ pc = "sort_dirs"
    /\ dirs' = dirs \o SortedReverse(dirs_holder)
    /\ dir_count' = Len(dirs')
    /\ pc' = "truncate"
    /\ UNCHANGED <<fsvars, partition, dirs_holder, has_dirs_holder, file_count,
                   files, stack, root, todo, listed, visited, seen, late, call,
                   raised>>
    /\ accumulated' = dirs_holder
SortDirsPopulate ==
    /\ pc = "sort_dirs"
    /\ dirs' = dirs \o SortedReverse(dirs_holder)
    /\ dirs_holder' = <<>>
    /\ has_dirs_holder' = FALSE
    /\ dir_count' = Len(dirs')
    /\ pc' = "truncate"
    /\ UNCHANGED <<fsvars, partition, file_count, files, stack, root, todo,
                   listed, visited, seen, late, call, raised>>
    /\ accumulated' = dirs_holder

\* _sort_dirs: self.dirs = self.dirs[0:10]
TruncateLast(ds) == SubSeq(ds, Max(1, Len(ds) - DirsKept + 1), Len(ds))
truncate_dirs(ds) == SubSeq(ds, 1, Min(DirsKept, Len(ds)))
SortDirsTruncate ==
    /\ pc = "truncate"
    /\ dirs' = truncate_dirs(dirs)
    /\ pc' = "done"
    /\ UNCHANGED <<fsvars, partition, dirs_holder, has_dirs_holder, dir_count,
                   file_count, files, stack, root, todo, listed, visited, seen,
                   late, call, raised>>
    /\ UNCHANGED accumulated

\* a caller uses the constructed object: disk._process_files(file_data)
LateProcessFiles ==
    /\ pc = "done"
    /\ late < MaxLate
    /\ \E stat \in StatResults :
           LET file_data == get_file_data(target, stat)
           IN  /\ files' = process_files(files, file_data)
               /\ seen' = seen (+) SetToBag({file_data})
    /\ late' = late + 1
    /\ call' = "_process_files"
    /\ raised' = FALSE
    /\ UNCHANGED <<pc, fsvars, partition, dirs_holder, has_dirs_holder, dir_count,
                   dirs, file_count, stack, root, todo, listed, visited>>
    /\ UNCHANGED accumulated

\* a caller uses the constructed object: disk._add_up_dir(root, file_data);
\* `root in self._dirs_holder` raises AttributeError once the attribute is deleted
LateAddUpDir ==
    /\ pc = "done"
    /\ late < MaxLate
    /\ \E stat \in StatResults :
           LET file_data == get_file_data(target, stat)
           IN  IF has_dirs_holder
               THEN /\ dirs_holder' = add_up_dir(dirs_holder, target, file_data)
                    /\ raised' = FALSE
               ELSE /\ raised' = TRUE
                    /\ UNCHANGED dirs_holder
    /\ late' = late + 1
    /\ call' = "_add_up_dir"
    /\ UNCHANGED <<pc, fsvars, partition, has_dirs_holder, dir_count, dirs,
                   file_count, files, stack, root, todo, listed, visited, seen>>
    /\ UNCHANGED accumulated

\* __init__: the construction of the object
Construct ==
    \/ GetPartitionUsage
    \/ WalkNext
    \/ ProcessFile
    \/ WalkDone
    \/ SortDirsPopulate
    \/ SortDirsTruncate

\* the construction, then calls of the object's methods
Next ==
    \/ GetPartitionUsage
    \/ WalkNext
    \/ ProcessFile
    \/ WalkDone
    \/ SortDirsPopulate
    \/ SortDirsTruncate
    \/ LateProcessFiles
    \/ LateAddUpDir

Spec == Init /\ [][Next]_vars
SpecNested == InitNested /\ [][Construct]_vars
SpecFlat == InitFlat /\ [][Construct]_vars
SpecWide == InitWide /\ [][Construct]_vars
SpecProbe == InitProbe /\ [][Construct]_vars

\* -------------------------------------------------------------- properties
IsSentinel(rec) == rec.name = NoName
SortedDescending(s) == \A i \in 1..Len(s) - 1 : s[i].size >= s[i + 1].size
Entries(s) == {s[i] : i \in 1..Len(s)}
AfterWalk == pc \in {"sort_dirs", "truncate", "done"}

RECURSIVE SumSizes(_)
SumSizes(s) == IF s = <<>> THEN 0 ELSE Head(s).size + SumSizes(Tail(s))

\* the part of the bag of processed records that satisfies Test
SeenWhere(Test(_)) ==
    BagCardinality([rec \in {x \in BagToSet(seen) : Test(x)} |-> seen[rec]])
SeenOfSize(s) == SeenWhere(LAMBDA rec : rec.size = s)
SeenLargerThan(s) == SeenWhere(LAMBDA rec : rec.size > s)
CountOfSize(fs, s) == Cardinality({i \in 1..Len(fs) : fs[i].size = s})
RealIn(fs) == Cardinality({i \in 1..Len(fs) : ~IsSentinel(fs[i])})

\* bytes of the successfully stat'ed files processed so far, in all
\* directories and in directory d
RECURSIVE BytesOf(_)
BytesOf(recs) ==
    IF recs = {} THEN 0
    ELSE LET rec == CHOOSE x \in recs : TRUE
         IN  rec.size * seen[rec] + BytesOf(recs \ {rec})
RealBytes == BytesOf({x \in BagToSet(seen) : ~IsSentinel(x)})
RealBytesIn(d) == BytesOf({x \in BagToSet(seen) : x.name = d})

\* C1: after every insertion self.files holds at most 20 records and is
\* sorted by size, largest first.
C1_TopFilesBoundedSorted == Len(files) <= 20 /\ SortedDescending(files)
C1_Witness ==
    /\ file_count > 20
    /\ Len(files) = 20
    /\ files[1].size > files[20].size

\* C2: the sizes in self.files are the min(n, 20) largest sizes of the n
\* records processed so far, with their multiplicities; in particular at the
\* end of the walk.
C2_TopFilesAreLargest ==
    /\ Len(files) = Min(BagCardinality(seen), 20)
    /\ \A s \in 0..MaxSize :
           CountOfSize(files, s) = Min(SeenOfSize(s), Max(0, 20 - SeenLargerThan(s)))
C2_Witness ==
    /\ pc = "done"
    /\ file_count > 20
    /\ SeenOfSize(0) > 0
    /\ SeenLargerThan(0) \in 1..19
    /\ CountOfSize(files, 0) < SeenOfSize(0)

\* C3: when self.files holds a sentinel record (a failed stat), every record
\* of a successfully stat'ed file processed so far is still in self.files.
C3_SentinelNeverDisplacesReal ==
    (\E i \in 1..Len(files) : IsSentinel(files[i]))
        => RealIn(files) = SeenWhere(LAMBDA rec : ~IsSentinel(rec))

\* C4: the values of _dirs_holder add up to the bytes of the successfully
\* stat'ed files processed so far, each entry holding the bytes of the files
\* of its own directory; the same holds of self.dirs just before truncation.
Conserved(items) ==
    /\ SumSizes(items) = RealBytes
    /\ \A i \in 1..Len(items) : items[i].size = RealBytesIn(items[i].name)
    /\ \A i, j \in 1..Len(items) : items[i].name = items[j].name => i = j
C4_BytesConserved ==
    /\ has_dirs_holder => Conserved(dirs_holder)
    /\ pc = "truncate" => Conserved(dirs)
C4_Witness ==
    /\ pc = "truncate"
    /\ Len(dirs) = 2
    /\ dirs[1].size > dirs[2].size
    /\ dirs[2].size > 1
    /\ Fails > 0
    /\ file_count > 4

\* C5: after finalization dir_count is the number of directories the walk
\* visited, those without files of their own included.
C5_DirCountIsVisited == pc = "done" => dir_count = Cardinality(visited)

\* C6: after _sort_dirs, self.dirs holds at most 10 entries of the map,
\* largest first; no entry left out is larger than one kept; and
\* dir_count >= len(self.dirs).
C6_TopDirs ==
    pc = "done" =>
        /\ Len(dirs) <= 10
        /\ SortedDescending(dirs)
        /\ Entries(dirs) \subseteq Entries(accumulated)
        /\ Len(dirs) = Min(Len(accumulated), 10)
        /\ \A x \in Entries(accumulated) \ Entries(dirs) :
               \A y \in Entries(dirs) : x.size <= y.size
        /\ dir_count >= Len(dirs)
C6_Witness ==
    /\ pc = "done"
    /\ dir_count > 10
    /\ Len(dirs) = 10
    /\ dirs[1].size > dirs[10].size
    /\ \E x \in Entries(accumulated) \ Entries(dirs) : x.size < dirs[1].size

\* C7: file_count is the number of file names the listings of the visited
\* directories returned: each processed name adds one, whether or not its stat
\* succeeded.
C7_FileCountIsListed ==
    /\ pc = "walk" => file_count + todo = listed
    /\ AfterWalk => file_count = listed
C7_Witness ==
    /\ pc = "done"
    /\ file_count > 2
    /\ Fails > 0
    /\ Cardinality(visited) > 2

Descends(dir, name) ==
    /\ Join(dir, name) \notin mounts
    /\ dir = "/" => name \notin {"dev", "proc", "selinux"}
RECURSIVE Reached(_)
Reached(dir) ==
    {dir} \cup UNION {Reached(Join(dir, subdirs[dir][i])) :
                        i \in {k \in 1..Len(subdirs[dir]) : Descends(dir, subdirs[dir][k])}}
C9_DescentPolicy ==
    /\ visited \subseteq Reached(target)
    /\ AfterWalk => visited = Reached(target)
    /\ \A rec \in Entries(files) : IsSentinel(rec) \/ rec.name \in Reached(target)
    /\ \A item \in Entries(dirs_holder) \cup Entries(dirs) : item.name \in Reached(target)
C9_Witness ==
    /\ pc = "done"
    /\ target = "/"
    /\ mounts = {"/a/b"}
    /\ visited = {"/", "/a", "/a/proc"}
    /\ file_count = 3

\* C10 as stated: used = (f_blocks - f_bavail) * f_frsize, so that
\* used + free = total.
Probed == pc \notin {"probe", "error"}
C10_UsedFromAvailable ==
    Probed =>
        /\ partition.used = (statvfs.f_blocks - statvfs.f_bavail) * statvfs.f_frsize
        /\ partition.used + partition.free = partition.total

\* C10 as amended: used = (f_blocks - f_bfree) * f_frsize while
\* free = f_bavail * f_frsize, so used + free falls short of total by the
\* reserved blocks, (f_bfree - f_bavail) * f_frsize.
C10_UsedFromFree ==
    Probed =>
        /\ partition.used = (statvfs.f_blocks - statvfs.f_bfree) * statvfs.f_frsize
        /\ partition.free = statvfs.f_bavail * statvfs.f_frsize
        /\ partition.total = statvfs.f_blocks * statvfs.f_frsize
        /\ partition.used + partition.free
               = partition.total - (statvfs.f_bfree - statvfs.f_bavail) * statvfs.f_frsize
        /\ partition.used + partition.free <= partition.total
C10_Witness ==
    /\ pc = "done"
    /\ statvfs.f_bfree > statvfs.f_bavail
    /\ partition.used + partition.free < partition.total
    /\ partition.used > 0

====
